---- MODULE Spec2Model ----
(***************************************************************************)
(* Model of the peco library front end (package peco, pecolib.go and its   *)
(* earlier snapshot): the select call, the supervising function pecolib,   *)
(* the four loops it launches, the delayed action armed by                 *)
(* ChoicesHelper.draw and the mapping of confirmed lines back to the       *)
(* caller's choices.                                                        *)
(***************************************************************************)
EXTENDS Integers, Sequences, FiniteSets, TLC

VARIABLES
    snapshot,      \* which source snapshot's entry point is called
    choices,       \* the caller's choice list
    choicesIsNil,  \* the choice list is the nil slice
    optLayout,     \* PecoOptions.OptLayout
    optMatcher,    \* PecoOptions.OptInitialMatcher
    optQuery,      \* PecoOptions.OptQuery
    optInitialIndex, \* PecoOptions.OptInitialIndex
    pc,            \* position of the supervising thread
    defers,        \* pecolib's deferred calls, most recent first
    panicking,     \* the supervising thread is unwinding after a panic
    ctxCreated,    \* NewCtx has been called
    matcher,       \* ctx's current matcher
    query,         \* ctx's current query
    lines,         \* ctx.lines, the buffer set by draw
    ttyReadyCalls, \* calls of TtyReady
    tbInitCalls,   \* calls of termbox.Init
    initFailed,    \* which terminal initialisation failed, "" if none
    termLog,       \* teardown calls in the order they ran
    launchIdx,     \* loops started by the for loop so far
    wg,            \* ctx's wait group counter
    wgAdds,        \* calls of AddWaitGroup
    loop,          \* state of each loop
    faulted,       \* loops a fault was raised in
    exitRequested, \* an exit request has been retained
    exitStatus,    \* the retained exit status
    exitFirst,     \* status of the first exit request made, -1 if none
    exitSeen,      \* statuses of the exit requests made so far
    resultSet,     \* the result protocol has a result (channel / slice non-nil)
    selection,     \* rows of the buffer the result protocol delivers
    supLog,        \* initial triggers issued by the supervisor
    stRead,        \* pecolib has read the exit status
    st,            \* the status pecolib read
    out,           \* pecolib's returned lines (rows of the buffer)
    pecoErr,       \* pecolib's returned error
    result,        \* the select call's returned items (positions in choices)
    error,         \* the select call's returned error
    drawCalls,     \* calls of ChoicesHelper.draw
    pending,       \* timers armed by draw that have not fired
    timerLog,      \* actions run by fired timers: <<action, phase>>
    shown,         \* the buffer the latest timer action executed or drew
    initialIndex   \* what InitialIndex returned, 0 before it is called

inputVars == <<snapshot, choices, choicesIsNil, optLayout, optMatcher, optQuery,
               optInitialIndex>>
supVars == <<pc, defers, panicking, ctxCreated, ttyReadyCalls, tbInitCalls,
             initFailed, termLog, launchIdx, wgAdds, supLog, stRead, st, out,
             pecoErr, result, error>>
ctxVars == <<matcher, query>>
exitVars == <<exitRequested, exitStatus, exitFirst, exitSeen>>
loopVars == <<wg, loop, faulted, resultSet, selection>>
timerVars == <<lines, drawCalls, pending, timerLog, shown>>
indexVars == <<initialIndex>>
vars == <<inputVars, supVars, ctxVars, exitVars, loopVars, timerVars, indexVars>>

----------------------------------------------------------------------------
(* Bounds *)
MaxChoices == 2
MaxDraws == 3
MaxLines == 1

----------------------------------------------------------------------------
(* Values *)

NUL == "NUL"
\* display texts: two plain texts, and a text with a NUL separator in it
Texts == { <<"a">>, <<"b">>, <<"a", NUL, "b">> }

NilChoice == [isNil |-> TRUE, C |-> <<>>]
Choosables == { [isNil |-> FALSE, C |-> t] : t \in Texts } \cup {NilChoice}

RECURSIVE SeqsUpTo(_, _)
SeqsUpTo(S, n) ==
    IF n = 0 THEN { <<>> }
    ELSE LET shorter == SeqsUpTo(S, n - 1)
         IN shorter \cup { Append(s, x) : s \in { t \in shorter : Len(t) = n - 1 }, x \in S }

ChoiceLists == SeqsUpTo(Choosables, MaxChoices)

Snapshots == { "pecolib.go", "part_000" }
Layouts == { "", "top-down", "sideways" }
MatcherNames == { "", "CaseSensitive", "Fuzzy" }
Queries == { "", "b" }

\* option values that differ from &PecoOptions{} in at most one field
PecoOptionsSet ==
    { o \in [OptLayout : Layouts, OptInitialMatcher : MatcherNames, OptQuery : Queries] :
        Cardinality({ f \in { "OptLayout", "OptInitialMatcher", "OptQuery" } : o[f] # "" }) <= 1 }

NoError == "nil"

LoopOrder == <<"view", "filter", "input", "signal">>
Loops == { LoopOrder[i] : i \in 1..Len(LoopOrder) }

----------------------------------------------------------------------------
(* Collaborators that live outside the two source files *)

IsValidLayoutType(l) == l \in { "top-down", "bottom-up" }

RegisteredMatchers == { "IgnoreCase", "CaseSensitive", "SmartCase" }
IgnoreCaseMatch == "IgnoreCase"
SetCurrentMatcher(name) == name \in RegisteredMatchers

\* position of the last NUL of a buffer, 0 if there is none
RECURSIVE SepLoc(_, _)
SepLoc(buf, i) ==
    IF i = 0 THEN 0
    ELSE IF buf[i] = NUL THEN i ELSE SepLoc(buf, i - 1)

NewRawLine(s) == [isNil |-> FALSE, C |-> s]

DisplayString(line) ==
    LET k == SepLoc(line.C, Len(line.C))
    IN IF k = 0 THEN line.C ELSE SubSeq(line.C, 1, k - 1)

Output(line) ==
    LET k == SepLoc(line.C, Len(line.C))
    IN IF k = 0 THEN line.C ELSE SubSeq(line.C, k + 1, Len(line.C))

NonZeroStatus == 1

WaitDone == wg = 0

\* requestExit: the first request's status is retained
ExitWith(status) ==
    IF exitRequested
    THEN UNCHANGED <<exitRequested, exitStatus>>
    ELSE exitRequested' = TRUE /\ exitStatus' = status

----------------------------------------------------------------------------
(* PecoOptions and pecolibWrap's tables *)

IsWrap == snapshot = "pecolib.go"

\* rows of the caller's list that are not nil, in input order
RECURSIVE NonNilIdx(_, _)
NonNilIdx(cs, i) ==
    IF i > Len(cs) THEN <<>>
    ELSE IF cs[i].isNil THEN NonNilIdx(cs, i + 1)
         ELSE <<i>> \o NonNilIdx(cs, i + 1)

\* matches: one raw line per non-nil choice
Matches(cs) ==
    LET idx == NonNilIdx(cs, 1)
    IN [k \in 1..Len(idx) |-> NewRawLine(cs[idx[k]].C)]

\* choiceMap: display text -> the last choice with that text (0: no entry)
ChoiceMap(cs, s) ==
    LET hits == { i \in 1..Len(cs) : ~cs[i].isNil /\ cs[i].C = s }
    IN IF hits = {} THEN 0 ELSE CHOOSE i \in hits : \A j \in hits : j <= i

\* the list handed to pecolib
PecolibArg == IF IsWrap THEN Matches(choices) ELSE choices

\* the row of the caller's list a buffer row came from
RowChoice(r) == IF IsWrap THEN NonNilIdx(choices, 1)[r] ELSE r

----------------------------------------------------------------------------
Init ==
    /\ snapshot \in Snapshots
    /\ choices \in ChoiceLists
    /\ choicesIsNil \in BOOLEAN
    /\ choicesIsNil => choices = <<>>
    /\ \E o \in PecoOptionsSet :
          /\ optLayout = o.OptLayout
          /\ optMatcher = o.OptInitialMatcher
          /\ optQuery = o.OptQuery
    /\ optInitialIndex = 0
    /\ initialIndex = 0
    /\ pc = "call"
    /\ defers = <<>>
    /\ panicking = FALSE
    /\ ctxCreated = FALSE
    /\ matcher = ""
    /\ query = ""
    /\ lines = <<>>
    /\ ttyReadyCalls = 0
    /\ tbInitCalls = 0
    /\ initFailed = ""
    /\ termLog = <<>>
    /\ launchIdx = 0
    /\ wg = 0
    /\ wgAdds = 0
    /\ loop = [l \in Loops |-> "new"]
    /\ faulted = {}
    /\ exitRequested = FALSE
    /\ exitStatus = 0
    /\ exitFirst = -1
    /\ exitSeen = {}
    /\ resultSet = FALSE
    /\ selection = <<>>
    /\ supLog = <<>>
    /\ stRead = FALSE
    /\ st = 0
    /\ out = <<>>
    /\ pecoErr = NoError
    /\ result = <<>>
    /\ error = NoError
    /\ drawCalls = 0
    /\ pending = 0
    /\ timerLog = <<>>
    /\ shown = <<>>


----------------------------------------------------------------------------
(* ChoicesHelper.draw and the delayed action it arms *)

NumLoops == Len(LoopOrder)

\* where the session is: before the loops are launched, live, or returned
Phase ==
    IF pc \in { "returned", "done" } THEN "post"
    ELSE IF launchIdx = NumLoops THEN "live" ELSE "pre"

\* ctx.ExecQuery: executes the query if there is one, and says whether it did
ExecQuery == query # ""

\* draw with the nil test inverted
draw_TestInverted(ch) ==
    LET refresh == "nil"
    IN /\ lines' = ch
       /\ drawCalls' = drawCalls + 1
       /\ IF refresh # "nil"
          THEN pending' = pending + 1
          ELSE UNCHANGED pending
       /\ UNCHANGED <<timerLog, shown>>

\* draw: m and refresh are locals of the call, so refresh is nil at the test
draw(ch) ==
    LET refresh == "nil"
    IN /\ lines' = ch
       /\ drawCalls' = drawCalls + 1
       /\ IF refresh = "nil"
          THEN pending' = pending + 1
          ELSE UNCHANGED pending
       /\ UNCHANGED <<timerLog, shown>>

\* the function given to time.AfterFunc
TimerFire ==
    /\ pending > 0
    /\ pending' = pending - 1
    /\ timerLog' = Append(timerLog,
           <<IF ExecQuery THEN "ExecQuery" ELSE "DrawMatches", Phase>>)
    /\ shown' = lines
    /\ UNCHANGED <<lines, drawCalls>>
    /\ UNCHANGED <<inputVars, indexVars, supVars, ctxVars, exitVars, loopVars>>

----------------------------------------------------------------------------
(* pecolibWrap and pecolib: the supervising thread *)

\* return statement of pecolib: the deferred calls run next
Return(lns, err) ==
    /\ out' = lns
    /\ pecoErr' = err
    /\ pc' = "unwind"

\* deferred calls kept in the order they were deferred
Defer_Fifo(call) == defers' = Append(defers, call)

\* defer: the most recently deferred call runs first
Defer(call) == defers' = <<call>> \o defers

\* pecolibWrap's checks of the list, then the call of pecolib
WrapChecks ==
    IF choicesIsNil THEN "choices is nil."
    ELSE IF Len(choices) = 0 THEN "choices is empty."
    ELSE IF Len(Matches(choices)) = 0 THEN "choices are all nil."
    ELSE NoError

SupCall ==
    /\ pc = "call"
    /\ IF IsWrap /\ WrapChecks # NoError
       THEN /\ error' = WrapChecks
            /\ pc' = "done"
       ELSE /\ pc' = "layout"
            /\ UNCHANGED error
    /\ UNCHANGED <<defers, panicking, ctxCreated, ttyReadyCalls, tbInitCalls,
                   initFailed, termLog, launchIdx, wgAdds, supLog, stRead, st,
                   out, pecoErr, result>>
    /\ UNCHANGED <<inputVars, indexVars, ctxVars, exitVars, loopVars, timerVars>>

\* the layout test with its first condition inverted
LayoutRejected_EmptyOnly == optLayout = "" /\ ~IsValidLayoutType(optLayout)

LayoutRejected == optLayout # "" /\ ~IsValidLayoutType(optLayout)

SupLayout ==
    /\ pc = "layout"
    /\ IF LayoutRejected
       THEN Return(<<>>, "Unknown layout")
       ELSE pc' = "newctx" /\ UNCHANGED <<out, pecoErr>>
    /\ UNCHANGED <<defers, panicking, ctxCreated, ttyReadyCalls, tbInitCalls,
                   initFailed, termLog, launchIdx, wgAdds, supLog, stRead, st,
                   result, error>>
    /\ UNCHANGED <<inputVars, indexVars, ctxVars, exitVars, loopVars, timerVars>>

\* NewCtx, the deferred recover, and the older snapshot's default matcher
SupNewCtx ==
    /\ pc = "newctx"
    /\ ctxCreated' = TRUE
    /\ Defer("recover")
    /\ matcher' = IgnoreCaseMatch
    /\ pc' = "rcfile"
    /\ UNCHANGED <<panicking, ttyReadyCalls, tbInitCalls, initFailed, termLog,
                   launchIdx, wgAdds, supLog, stRead, st, out, pecoErr, result,
                   error>>
    /\ UNCHANGED <<inputVars, indexVars, query, exitVars, loopVars, timerVars>>

\* the initial matcher is looked at by the older snapshot only
MatcherChecked == ~IsWrap

MatcherRejected ==
    MatcherChecked /\ Len(optMatcher) > 0 /\ ~SetCurrentMatcher(optMatcher)

\* LocateRcfile / ReadConfig, SetPrompt, and the initial matcher
SupConfig ==
    /\ pc = "rcfile"
    /\ \E rc \in { "none", "read", "unreadable" } :
          IF rc = "unreadable"
          THEN Return(<<>>, "ReadConfig") /\ UNCHANGED matcher
          ELSE IF MatcherRejected
          THEN Return(<<>>, "Unknown matcher") /\ UNCHANGED matcher
          ELSE /\ pc' = "draw"
               /\ matcher' = IF MatcherChecked /\ Len(optMatcher) > 0
                             THEN optMatcher ELSE matcher
               /\ UNCHANGED <<out, pecoErr>>
    /\ UNCHANGED <<defers, panicking, ctxCreated, ttyReadyCalls, tbInitCalls,
                   initFailed, termLog, launchIdx, wgAdds, supLog, stRead, st,
                   result, error>>
    /\ UNCHANGED <<inputVars, indexVars, query, exitVars, loopVars, timerVars>>

SupDraw ==
    /\ pc = "draw"
    /\ draw(PecolibArg)
    /\ pc' = "ttyready"
    /\ UNCHANGED <<defers, panicking, ctxCreated, ttyReadyCalls, tbInitCalls,
                   initFailed, termLog, launchIdx, wgAdds, supLog, stRead, st,
                   out, pecoErr, result, error>>
    /\ UNCHANGED <<inputVars, indexVars, ctxVars, exitVars, loopVars>>

\* TtyReady's result handled without deferring TtyTerm
AfterTtyReady_NoDefer(err) ==
    IF err # NoError
    THEN /\ Return(<<>>, err)
         /\ initFailed' = "TtyReady"
         /\ UNCHANGED defers
    ELSE /\ pc' = "tbinit"
         /\ UNCHANGED <<out, pecoErr, initFailed, defers>>

\* what pecolib does when TtyReady has returned err
AfterTtyReady(err) ==
    IF err # NoError
    THEN /\ Return(<<>>, err)
         /\ initFailed' = "TtyReady"
         /\ UNCHANGED defers
    ELSE /\ Defer("TtyTerm")
         /\ pc' = "tbinit"
         /\ UNCHANGED <<out, pecoErr, initFailed>>

SupTtyReady ==
    /\ pc = "ttyready"
    /\ ttyReadyCalls' = ttyReadyCalls + 1
    /\ \E err \in { NoError, "TtyReady" } : AfterTtyReady(err)
    /\ UNCHANGED <<panicking, ctxCreated, tbInitCalls, termLog, launchIdx,
                   wgAdds, supLog, stRead, st, result, error>>
    /\ UNCHANGED <<inputVars, indexVars, ctxVars, exitVars, loopVars, timerVars>>

\* termbox.Init's error recorded and not acted on
AfterTermboxInit_ErrorIgnored(err) ==
    /\ initFailed' = IF err # NoError THEN "termbox.Init" ELSE initFailed
    /\ Defer("termbox.Close")
    /\ pc' = "launch_add"
    /\ UNCHANGED <<out, pecoErr>>

\* what pecolib does when termbox.Init has returned err
AfterTermboxInit(err) ==
    IF err # NoError
    THEN /\ Return(<<>>, err)
         /\ initFailed' = "termbox.Init"
         /\ UNCHANGED defers
    ELSE /\ Defer("termbox.Close")
         /\ pc' = "launch_add"
         /\ UNCHANGED <<out, pecoErr, initFailed>>

SupTermboxInit ==
    /\ pc = "tbinit"
    /\ tbInitCalls' = tbInitCalls + 1
    /\ \E err \in { NoError, "termbox.Init" } : AfterTermboxInit(err)
    /\ UNCHANGED <<panicking, ctxCreated, ttyReadyCalls, termLog, launchIdx,
                   wgAdds, supLog, stRead, st, result, error>>
    /\ UNCHANGED <<inputVars, indexVars, ctxVars, exitVars, loopVars, timerVars>>

\* ctx.AddWaitGroup(1) of the for loop over loopers
SupAddWaitGroup ==
    /\ pc = "launch_add"
    /\ wg' = wg + 1
    /\ wgAdds' = wgAdds + 1
    /\ pc' = "launch_go"
    /\ UNCHANGED <<defers, panicking, ctxCreated, ttyReadyCalls, tbInitCalls,
                   initFailed, termLog, launchIdx, supLog, stRead, st, out,
                   pecoErr, result, error>>
    /\ UNCHANGED <<loop, faulted, resultSet, selection>>
    /\ UNCHANGED <<inputVars, indexVars, ctxVars, exitVars, timerVars>>

\* go looper.Loop() of the for loop over loopers
SupGo ==
    /\ pc = "launch_go"
    /\ launchIdx' = launchIdx + 1
    /\ loop' = [loop EXCEPT ![LoopOrder[launchIdx + 1]] = "running"]
    /\ pc' = IF launchIdx + 1 = NumLoops THEN "trigger" ELSE "launch_add"
    /\ UNCHANGED <<defers, panicking, ctxCreated, ttyReadyCalls, tbInitCalls,
                   initFailed, termLog, wgAdds, supLog, stRead, st, out,
                   pecoErr, result, error>>
    /\ UNCHANGED <<wg, faulted, resultSet, selection>>
    /\ UNCHANGED <<inputVars, indexVars, ctxVars, exitVars, timerVars>>

\* the initial trigger: SetQuery then ExecQuery, or view.Refresh
SupTrigger ==
    /\ pc = "trigger"
    /\ IF Len(optQuery) > 0
       THEN /\ query' = optQuery
            /\ supLog' = Append(supLog, "SetQuery")
            /\ pc' = "exec"
       ELSE /\ supLog' = Append(supLog, "Refresh")
            /\ pc' = "wait"
            /\ UNCHANGED query
    /\ UNCHANGED <<defers, panicking, ctxCreated, ttyReadyCalls, tbInitCalls,
                   initFailed, termLog, launchIdx, wgAdds, stRead, st, out,
                   pecoErr, result, error>>
    /\ UNCHANGED <<inputVars, indexVars, matcher, exitVars, loopVars, timerVars>>

\* ExecQuery followed by a view refresh as well
SupExecQuery_AlsoRefresh ==
    /\ pc = "exec"
    /\ supLog' = supLog \o <<"ExecQuery", "Refresh">>
    /\ pc' = "wait"
    /\ UNCHANGED <<defers, panicking, ctxCreated, ttyReadyCalls, tbInitCalls,
                   initFailed, termLog, launchIdx, wgAdds, stRead, st, out,
                   pecoErr, result, error>>
    /\ UNCHANGED <<inputVars, indexVars, ctxVars, exitVars, loopVars, timerVars>>

\* ctx.ExecQuery() after SetQuery; its result is not looked at
SupExecQuery ==
    /\ pc = "exec"
    /\ supLog' = Append(supLog, "ExecQuery")
    /\ pc' = "wait"
    /\ UNCHANGED <<defers, panicking, ctxCreated, ttyReadyCalls, tbInitCalls,
                   initFailed, termLog, launchIdx, wgAdds, stRead, st, out,
                   pecoErr, result, error>>
    /\ UNCHANGED <<inputVars, indexVars, ctxVars, exitVars, loopVars, timerVars>>

\* the supervisor going on without waiting for the loops
SupWaitDone_NoWait ==
    /\ pc = "wait"
    /\ pc' = "status"
    /\ UNCHANGED <<defers, panicking, ctxCreated, ttyReadyCalls, tbInitCalls,
                   initFailed, termLog, launchIdx, wgAdds, supLog, stRead, st,
                   out, pecoErr, result, error>>
    /\ UNCHANGED <<inputVars, indexVars, ctxVars, exitVars, loopVars, timerVars>>

\* ctx.WaitDone() blocks until every registered loop has finished
SupWaitDone ==
    /\ pc = "wait"
    /\ WaitDone
    /\ pc' = "status"
    /\ UNCHANGED <<defers, panicking, ctxCreated, ttyReadyCalls, tbInitCalls,
                   initFailed, termLog, launchIdx, wgAdds, supLog, stRead, st,
                   out, pecoErr, result, error>>
    /\ UNCHANGED <<inputVars, indexVars, ctxVars, exitVars, loopVars, timerVars>>

\* the exit status read and not looked at
AfterExitStatus_Ignored(status) ==
    pc' = "drain" /\ UNCHANGED <<out, pecoErr>>

\* the test of the exit status inverted
AfterExitStatus_Inverted(status) ==
    IF status = 0
    THEN Return(<<>>, "something error code")
    ELSE pc' = "drain" /\ UNCHANGED <<out, pecoErr>>

\* what pecolib does with the exit status it has read
AfterExitStatus(status) ==
    IF status # 0
    THEN Return(<<>>, "something error code")
    ELSE pc' = "drain" /\ UNCHANGED <<out, pecoErr>>

SupExitStatus ==
    /\ pc = "status"
    /\ stRead' = TRUE
    /\ st' = exitStatus
    /\ AfterExitStatus(exitStatus)
    /\ UNCHANGED <<defers, panicking, ctxCreated, ttyReadyCalls, tbInitCalls,
                   initFailed, termLog, launchIdx, wgAdds, supLog, result,
                   error>>
    /\ UNCHANGED <<inputVars, indexVars, ctxVars, exitVars, loopVars, timerVars>>

\* the result channel (or slice) is read to its end
SupDrain ==
    /\ pc = "drain"
    /\ Return(IF resultSet THEN selection ELSE <<>>, NoError)
    /\ UNCHANGED <<defers, panicking, ctxCreated, ttyReadyCalls, tbInitCalls,
                   initFailed, termLog, launchIdx, wgAdds, supLog, stRead, st,
                   result, error>>
    /\ UNCHANGED <<inputVars, indexVars, ctxVars, exitVars, loopVars, timerVars>>

\* a panic in the supervising thread, once the recover is deferred
PanicPoints == { "rcfile", "tbinit", "launch_add" }

SupPanic ==
    /\ pc \in PanicPoints
    /\ panicking' = TRUE
    /\ pc' = "unwind"
    /\ UNCHANGED <<defers, ctxCreated, ttyReadyCalls, tbInitCalls, initFailed,
                   termLog, launchIdx, wgAdds, supLog, stRead, st, out,
                   pecoErr, result, error>>
    /\ UNCHANGED <<inputVars, indexVars, ctxVars, exitVars, loopVars, timerVars>>

\* the deferred calls run, most recently deferred first; the deferred
\* recover ends a panic and pecolib then returns its zero values
RECURSIVE RunDefers(_, _)
RunDefers(ds, log) ==
    IF ds = <<>> THEN log
    ELSE IF Head(ds) = "recover" THEN RunDefers(Tail(ds), log)
    ELSE RunDefers(Tail(ds), Append(log, Head(ds)))

SupReturn ==
    /\ pc = "unwind"
    /\ termLog' = RunDefers(defers, termLog)
    /\ defers' = <<>>
    /\ panicking' = FALSE
    /\ IF panicking
       THEN out' = <<>> /\ pecoErr' = NoError
       ELSE UNCHANGED <<out, pecoErr>>
    /\ pc' = "returned"
    /\ UNCHANGED <<ctxCreated, ttyReadyCalls, tbInitCalls, initFailed,
                   launchIdx, wgAdds, supLog, stRead, st, result, error>>
    /\ UNCHANGED <<inputVars, indexVars, ctxVars, exitVars, loopVars, timerVars>>

\* pecolibWrap's loop, with each looked-up choice put in front of the list
RECURSIVE MapBack_Prepend(_, _, _, _)
MapBack_Prepend(cs, ls, matched, ret) ==
    IF matched = <<>> THEN [ret |-> ret, err |-> NoError]
    ELSE LET v == ChoiceMap(cs, Output(ls[Head(matched)]))
         IN IF v # 0
            THEN MapBack_Prepend(cs, ls, Tail(matched), <<v>> \o ret)
            ELSE [ret |-> <<>>, err |-> "internal error"]

\* pecolibWrap's loop over matched: each output looked up in choiceMap
RECURSIVE MapBack(_, _, _, _)
MapBack(cs, ls, matched, ret) ==
    IF matched = <<>> THEN [ret |-> ret, err |-> NoError]
    ELSE LET v == ChoiceMap(cs, Output(ls[Head(matched)]))
         IN IF v # 0
            THEN MapBack(cs, ls, Tail(matched), Append(ret, v))
            ELSE [ret |-> <<>>, err |-> "internal error"]

\* what the select call returns once pecolib has returned
SelectResult ==
    IF ~IsWrap THEN [ret |-> [k \in 1..Len(out) |-> RowChoice(out[k])], err |-> pecoErr]
    ELSE IF pecoErr # NoError THEN [ret |-> <<>>, err |-> pecoErr]
    ELSE MapBack(choices, lines, out, <<>>)

SupFinish ==
    /\ pc = "returned"
    /\ result' = SelectResult.ret
    /\ error' = SelectResult.err
    /\ pc' = "done"
    /\ UNCHANGED <<defers, panicking, ctxCreated, ttyReadyCalls, tbInitCalls,
                   initFailed, termLog, launchIdx, wgAdds, supLog, stRead, st,
                   out, pecoErr>>
    /\ UNCHANGED <<inputVars, indexVars, ctxVars, exitVars, loopVars, timerVars>>


----------------------------------------------------------------------------
(* Choose: PecolibWithOptions with a prompt and a default query *)

\* Choose with the two tests on the selection joined by && instead of ||
Choose_And(cs, res, err) ==
    LET Ok(r) == r \in 1..Len(cs) /\ ~cs[r].isNil
    IN IF Len(cs) = 0
       THEN [chosen |-> <<>>, err |-> "there is no"]
       ELSE IF err # NoError /\ Len(res) = 0
            THEN [chosen |-> <<>>, err |-> "no select"]
            ELSE [chosen |-> SelectSeq(res, Ok), err |-> NoError]

\* what Choose returns for the list cs when PecolibWithOptions returned
\* (res, err); Ok is the type assertion r.(Choosable)
Choose(cs, res, err) ==
    LET Ok(r) == r \in 1..Len(cs) /\ ~cs[r].isNil
    IN IF Len(cs) = 0
       THEN [chosen |-> <<>>, err |-> "there is no"]
       ELSE IF err # NoError \/ Len(res) = 0
            THEN [chosen |-> <<>>, err |-> "no select"]
            ELSE [chosen |-> SelectSeq(res, Ok), err |-> NoError]

----------------------------------------------------------------------------
(* The four loops and the result protocol *)

\* bookkeeping of the exit requests made, whatever the coordinator retains
Requested(status) ==
    /\ exitFirst' = IF exitSeen = {} THEN status ELSE exitFirst
    /\ exitSeen' = exitSeen \cup {status}

\* the loop returns and releases the wait group
LoopEnds(l) ==
    /\ loop' = [loop EXCEPT ![l] = "done"]
    /\ wg' = wg - 1

\* a loop observes the exit request and stops
LoopStop(l) ==
    /\ loop[l] = "running"
    /\ exitRequested
    /\ LoopEnds(l)
    /\ UNCHANGED <<faulted, resultSet, selection>>
    /\ UNCHANGED <<inputVars, indexVars, supVars, ctxVars, exitVars, timerVars>>

\* a fault in a loop is caught at the loop's boundary and forces the exit
LoopFault(l) ==
    /\ loop[l] = "running"
    /\ faulted' = faulted \cup {l}
    /\ ExitWith(NonZeroStatus)
    /\ Requested(NonZeroStatus)
    /\ LoopEnds(l)
    /\ UNCHANGED <<resultSet, selection>>
    /\ UNCHANGED <<inputVars, indexVars, supVars, ctxVars, timerVars>>

RECURSIVE SortedSeq(_)
SortedSeq(S) ==
    IF S = {} THEN <<>>
    ELSE LET m == CHOOSE x \in S : \A y \in S : x <= y
         IN <<m>> \o SortedSeq(S \ {m})

\* rows of the buffer that can be selected
Rows == { r \in 1..Len(lines) : ~lines[r].isNil }

\* the user confirms: the chosen rows become the result, exit status 0
InputConfirm ==
    /\ loop["input"] = "running"
    /\ \E S \in SUBSET Rows : selection' = SortedSeq(S)
    /\ resultSet' = TRUE
    /\ ExitWith(0)
    /\ Requested(0)
    /\ LoopEnds("input")
    /\ UNCHANGED faulted
    /\ UNCHANGED <<inputVars, indexVars, supVars, ctxVars, timerVars>>

\* the user cancels: nothing selected, non-zero exit status
InputCancel ==
    /\ loop["input"] = "running"
    /\ ExitWith(NonZeroStatus)
    /\ Requested(NonZeroStatus)
    /\ LoopEnds("input")
    /\ UNCHANGED <<faulted, resultSet, selection>>
    /\ UNCHANGED <<inputVars, indexVars, supVars, ctxVars, timerVars>>

\* an interrupt reaches the signal loop
SignalInterrupt ==
    /\ loop["signal"] = "running"
    /\ ExitWith(NonZeroStatus)
    /\ Requested(NonZeroStatus)
    /\ LoopEnds("signal")
    /\ UNCHANGED <<faulted, resultSet, selection>>
    /\ UNCHANGED <<inputVars, indexVars, supVars, ctxVars, timerVars>>

----------------------------------------------------------------------------
(* The session *)

Supervisor ==
    \/ SupCall \/ SupLayout \/ SupNewCtx \/ SupConfig \/ SupDraw
    \/ SupTtyReady \/ SupTermboxInit \/ SupAddWaitGroup \/ SupGo
    \/ SupTrigger \/ SupExecQuery \/ SupWaitDone \/ SupExitStatus
    \/ SupDrain \/ SupReturn \/ SupFinish

Next ==
    \/ SupCall \/ SupLayout \/ SupNewCtx \/ SupConfig \/ SupDraw
    \/ SupTtyReady \/ SupTermboxInit \/ SupAddWaitGroup \/ SupGo
    \/ SupTrigger \/ SupExecQuery \/ SupWaitDone \/ SupExitStatus
    \/ SupDrain \/ SupReturn \/ SupFinish
    \/ SupPanic
    \/ \E l \in Loops : LoopStop(l)
    \/ \E l \in Loops : LoopFault(l)
    \/ InputConfirm \/ InputCancel \/ SignalInterrupt
    \/ TimerFire

Spec == Init /\ [][Next]_vars

----------------------------------------------------------------------------
(* ChoicesHelper.draw called repeatedly on one helper *)

LineLists ==
    { l \in SeqsUpTo(Choosables, MaxLines) : \A i \in 1..Len(l) : ~l[i].isNil }

HelperDraw(ch) ==
    /\ drawCalls < MaxDraws
    /\ draw(ch)
    /\ UNCHANGED <<inputVars, indexVars, supVars, ctxVars, exitVars, loopVars>>

\* the state pecolib is in when it makes the helper, zero-valued options
DrawInit ==
    /\ snapshot \in Snapshots
    /\ choices \in LineLists /\ choices # <<>>
    /\ choicesIsNil = FALSE
    /\ optLayout = "" /\ optMatcher = "" /\ optQuery = ""
    /\ optInitialIndex = 0 /\ initialIndex = 0
    /\ pc = "draw"
    /\ defers = <<"recover">>
    /\ panicking = FALSE
    /\ ctxCreated = TRUE
    /\ matcher = IgnoreCaseMatch
    /\ query = ""
    /\ lines = <<>>
    /\ ttyReadyCalls = 0 /\ tbInitCalls = 0 /\ initFailed = ""
    /\ termLog = <<>> /\ launchIdx = 0 /\ wg = 0 /\ wgAdds = 0
    /\ loop = [l \in Loops |-> "new"]
    /\ faulted = {}
    /\ exitRequested = FALSE /\ exitStatus = 0
    /\ exitFirst = -1 /\ exitSeen = {}
    /\ resultSet = FALSE /\ selection = <<>>
    /\ supLog = <<>> /\ stRead = FALSE /\ st = 0
    /\ out = <<>> /\ pecoErr = NoError
    /\ result = <<>> /\ error = NoError
    /\ drawCalls = 0 /\ pending = 0 /\ timerLog = <<>> /\ shown = <<>>

DrawNext ==
    \/ \E ch \in LineLists : HelperDraw(ch)
    \/ TimerFire

DrawSpec == DrawInit /\ [][DrawNext]_vars

\* a timer armed by time.AfterFunc fires once its delay has passed
DrawFairSpec == DrawSpec /\ WF_vars(TimerFire)


----------------------------------------------------------------------------
(* PecoOptions.InitialIndex, on 32-bit ints (GOARCH=386, arm) *)

MaxInt == 2147483647
MinInt == -MaxInt - 1
MaxIndexSpan == 20

\* x + 1 on an int: Go's signed addition wraps around
Inc(x) == IF x = MaxInt THEN MinInt ELSE x + 1

InitialIndex(o) == IF o >= 0 THEN Inc(o) ELSE 1

\* option values around zero and at both ends of int
IndexInputs ==
    { MinInt + k : k \in 0..MaxIndexSpan }
        \cup { k - MaxIndexSpan : k \in 0..(2 * MaxIndexSpan) }
        \cup { MaxInt - k : k \in 0..MaxIndexSpan }

IndexInit ==
    /\ snapshot \in Snapshots
    /\ choices = <<>>
    /\ choicesIsNil = FALSE
    /\ optLayout = "" /\ optMatcher = "" /\ optQuery = ""
    /\ optInitialIndex \in IndexInputs
    /\ initialIndex = 0
    /\ pc = "index"
    /\ defers = <<>>
    /\ panicking = FALSE
    /\ ctxCreated = FALSE
    /\ matcher = ""
    /\ query = ""
    /\ lines = <<>>
    /\ ttyReadyCalls = 0 /\ tbInitCalls = 0 /\ initFailed = ""
    /\ termLog = <<>> /\ launchIdx = 0 /\ wg = 0 /\ wgAdds = 0
    /\ loop = [l \in Loops |-> "new"]
    /\ faulted = {}
    /\ exitRequested = FALSE /\ exitStatus = 0
    /\ exitFirst = -1 /\ exitSeen = {}
    /\ resultSet = FALSE /\ selection = <<>>
    /\ supLog = <<>> /\ stRead = FALSE /\ st = 0
    /\ out = <<>> /\ pecoErr = NoError
    /\ result = <<>> /\ error = NoError
    /\ drawCalls = 0 /\ pending = 0 /\ timerLog = <<>> /\ shown = <<>>

CallInitialIndex ==
    /\ pc = "index"
    /\ initialIndex' = InitialIndex(optInitialIndex)
    /\ pc' = "indexed"
    /\ UNCHANGED <<defers, panicking, ctxCreated, ttyReadyCalls, tbInitCalls,
                   initFailed, termLog, launchIdx, wgAdds, supLog, stRead, st,
                   out, pecoErr, result, error>>
    /\ UNCHANGED <<inputVars, ctxVars, exitVars, loopVars, timerVars>>

IndexNext == CallInitialIndex

IndexSpec == IndexInit /\ [][IndexNext]_vars

----------------------------------------------------------------------------
(* Properties *)

\* pecolibWrap refused the list and never called pecolib
WrapRejected == IsWrap /\ WrapChecks # NoError

\* pecolib was called and has returned
PecolibReturned == pc = "returned" \/ (pc = "done" /\ ~WrapRejected)

\* the list is nil, empty, or holds nil entries only
Degenerate == choicesIsNil \/ \A i \in 1..Len(choices) : choices[i].isNil

NoSessionStep ==
    /\ ~ctxCreated
    /\ drawCalls = 0 /\ pending = 0
    /\ ttyReadyCalls = 0 /\ tbInitCalls = 0
    /\ launchIdx = 0 /\ wgAdds = 0
    /\ \A l \in Loops : loop[l] = "new"

NoTerminalStep ==
    /\ ttyReadyCalls = 0 /\ tbInitCalls = 0
    /\ launchIdx = 0
    /\ \A l \in Loops : loop[l] = "new"

\* C1: every item the select call of pecolib.go returns is a non-nil choice of
\* the caller's list; when it returns no error there is one item per line
\* pecolib returned, in the same order, and the item's display text is the
\* line's output.
C1_ReturnedItemsAreInputChoices ==
    (IsWrap /\ pc = "done") =>
        /\ \A k \in 1..Len(result) :
              result[k] \in 1..Len(choices) /\ ~choices[result[k]].isNil
        /\ error = NoError =>
              /\ Len(result) = Len(out)
              /\ \A k \in 1..Len(out) :
                    choices[result[k]].C = Output(lines[out[k]])
        /\ error # NoError => result = <<>>

C1_Witness ==
    /\ IsWrap /\ pc = "done" /\ error = NoError
    /\ Len(result) = 2 /\ result[1] # result[2]

\* C2: a nil, empty or all-nil choice list makes the select call fail with an
\* error, with no coordinator, no timer, no TtyReady, no termbox.Init and no
\* loop. (Stated for both snapshots' entry points.)
C2_DegenerateListNeverStartsSession ==
    Degenerate => (NoSessionStep /\ (pc = "done" => error # NoError))

\* C3 as claimed: a cancelled session (non-zero exit status read by pecolib,
\* nothing selected) returns an empty result and a nil error.
C3_CancelReturnsNilError ==
    (pc = "done" /\ stRead /\ st # 0 /\ ~resultSet) =>
        (error = NoError /\ result = <<>>)

\* C3 amended: when pecolib reads a non-zero exit status it returns no lines
\* and the error "something error code", and the select call returns an empty
\* result with that error.
C3_NonZeroStatusReturnsError ==
    /\ (PecolibReturned /\ stRead /\ st # 0) =>
          (pecoErr = "something error code" /\ out = <<>>)
    /\ (pc = "done" /\ stRead /\ st # 0) =>
          (error = "something error code" /\ result = <<>>)

C3_Witness ==
    /\ pc = "done" /\ stRead /\ st # 0 /\ ~resultSet
    /\ error = "something error code"

\* C4: an initial matcher name that is not registered makes the start fail
\* with an error before TtyReady, termbox.Init or any loop; a registered name
\* never makes it fail. (Stated for both snapshots.)
C4_UnknownMatcherFailsBeforeTerminal ==
    /\ (optMatcher # "" /\ ~SetCurrentMatcher(optMatcher)) =>
          (NoTerminalStep /\ (pc = "done" => error # NoError))
    /\ (optMatcher # "" /\ SetCurrentMatcher(optMatcher)) =>
          (pecoErr # "Unknown matcher" /\ error # "Unknown matcher")

\* C5: a non-empty layout option that is no valid layout type makes pecolib
\* return the unknown-layout error with no coordinator, no timer, no TtyReady,
\* no termbox.Init and no loop.
C5_BadLayoutFailsFast ==
    (optLayout # "" /\ ~IsValidLayoutType(optLayout)) =>
        /\ NoSessionStep
        /\ PecolibReturned => pecoErr = "Unknown layout"
        /\ pc = "done" => error # NoError

C5_Witness ==
    /\ optLayout # "" /\ ~IsValidLayoutType(optLayout)
    /\ pc = "done" /\ error = "Unknown layout"


TtyAcquired == ttyReadyCalls > 0 /\ initFailed # "TtyReady" /\ pc # "ttyready"
InitSucceeded == tbInitCalls > 0 /\ initFailed # "termbox.Init"

Launched == { l \in Loops : loop[l] # "new" }

\* C6: pecolib starts the four loops in order, each registered with the wait
\* group before it is started; once the launch is over four loops have been
\* registered and started; the exit status is read and the result consumed
\* only when all four loops have finished.
C6_FourLoopsJoinedBeforeResult ==
    /\ NumLoops = 4
    /\ Launched = { LoopOrder[i] : i \in 1..launchIdx }
    /\ launchIdx <= wgAdds /\ wgAdds <= launchIdx + 1
    /\ pc = "launch_go" => wgAdds = launchIdx + 1
    /\ pc \in { "trigger", "exec", "wait", "status", "drain" } =>
          (launchIdx = NumLoops /\ wgAdds = NumLoops)
    /\ (pc \in { "status", "drain" } \/ stRead) =>
          \A l \in Loops : loop[l] = "done"

C6_Witness ==
    /\ pc = "drain" /\ resultSet /\ selection # <<>>
    /\ \A l \in Loops : loop[l] = "done"

\* C7: once pecolib has returned, TtyTerm has run exactly once if TtyReady
\* succeeded (and not at all otherwise), and termbox.Close has run exactly
\* once, before TtyTerm, if termbox.Init succeeded; no teardown runs before
\* the return begins.
C7_TerminalRestoredOnReturn ==
    /\ PecolibReturned =>
          termLog = IF ~TtyAcquired THEN <<>>
                    ELSE IF InitSucceeded THEN <<"termbox.Close", "TtyTerm">>
                    ELSE <<"TtyTerm">>
    /\ ~PecolibReturned => termLog = <<>>

\* returned after termbox.Init succeeded, by a fault in the supervising thread
C7_Witness ==
    /\ PecolibReturned /\ InitSucceeded /\ launchIdx < NumLoops
    /\ termLog = <<"termbox.Close", "TtyTerm">>

\* C8: when TtyReady or termbox.Init fails, pecolib returns that error, no
\* loop is started, the wait group is never incremented and the supervisor
\* issues no ExecQuery and no view.Refresh.
C8_InitFailureStartsNothing ==
    initFailed # "" =>
        /\ launchIdx = 0 /\ wgAdds = 0 /\ wg = 0
        /\ \A l \in Loops : loop[l] = "new"
        /\ supLog = <<>>
        /\ PecolibReturned => pecoErr = initFailed
        /\ pc = "done" => error = initFailed

C8_Witness ==
    /\ pc = "done" /\ initFailed = "termbox.Init" /\ error = "termbox.Init"
    /\ termLog = <<"TtyTerm">>

\* a step of the supervising thread or of a loop that is stopping
SessionStep == Supervisor \/ \E l \in Loops : LoopStop(l)

C10_AtMostOneTimerArmed == pending <= 1


\* C11: every timer armed by draw is either pending or has run its action
\* exactly once; every pending timer eventually fires; and once the timers of
\* a burst have fired, an execute-or-redraw action has run on the buffer set
\* by the last draw.
C11_ArmedTimerFiresOnce ==
    /\ [](Len(timerLog) + pending = drawCalls)
    /\ [](pending = 0 /\ drawCalls > 0 => shown = lines)
    /\ [](pending > 0 => <>(pending = 0 /\ timerLog # <<>> /\ shown = lines))

C11_Witness ==
    /\ drawCalls >= 2 /\ pending = 0 /\ Len(timerLog) = drawCalls
    /\ lines # <<>> /\ shown = lines

C13_IngestedLinesAlwaysMapBack ==
    IsWrap /\ pc = "done" =>
        /\ error = "internal error" <=>
              /\ pecoErr = NoError
              /\ \E k \in 1..Len(out) :
                     ChoiceMap(choices, Output(lines[out[k]])) = 0
        /\ lines = Matches(choices) => error # "internal error"

\* C14: InitialIndex returns a value of at least 1 for every value of the
\* option: 1 when the option is zero or negative, the option plus one when
\* it is positive.
C14_InitialIndexAtLeastOne ==
    pc = "indexed" =>
        /\ initialIndex >= 1
        /\ optInitialIndex <= 0 => initialIndex = 1
        /\ optInitialIndex > 0 => initialIndex - 1 = optInitialIndex

\* the initial trigger pecolib owes for the options it was given
InitialTrigger ==
    IF Len(optQuery) > 0 THEN <<"SetQuery", "ExecQuery">> ELSE <<"Refresh">>

\* C15: the supervisor issues nothing before all four loops are launched;
\* once they are, and before it waits, it issues exactly one initial trigger:
\* SetQuery and then ExecQuery when the initial query is non-empty, one view
\* refresh otherwise, never both.
C15_OneInitialTriggerAfterLaunch ==
    /\ launchIdx < NumLoops \/ pc = "trigger" => supLog = <<>>
    /\ pc = "exec" =>
          Len(optQuery) > 0 /\ query = optQuery /\ supLog = <<"SetQuery">>
    /\ launchIdx = NumLoops /\ pc \notin { "trigger", "exec" } =>
          supLog = InitialTrigger

C15_Witness ==
    /\ pc = "wait" /\ wg > 0
    /\ launchIdx = NumLoops
    /\ supLog = <<"SetQuery", "ExecQuery">>

\* the choices carrying the same text as choice i, and the last of them
SameText(i) ==
    { j \in 1..Len(choices) : ~choices[j].isNil /\ choices[j].C = choices[i].C }

LastSameText(i) == CHOOSE j \in SameText(i) : \A h \in SameText(i) : h <= j

\* C16: when several choices carry the same text, every confirmed line with
\* that text is returned as the last of these choices, whichever of the
\* duplicate rows was selected, and no earlier duplicate is returned.
C16_DuplicateTextLastWins ==
    IsWrap /\ pc = "done" /\ pecoErr = NoError =>
        \A k \in 1..Len(out) :
            Cardinality(SameText(RowChoice(out[k]))) >= 2 =>
                /\ error = NoError
                /\ Len(result) = Len(out)
                /\ result[k] = LastSameText(RowChoice(out[k]))

\* C17: a timer action runs only while the session is live, never before
\* the loops are launched and never after pecolib has returned, and no timer
\* is pending once pecolib has returned.
C17_TimerActionOnlyWhileLive ==
    /\ \A i \in 1..Len(timerLog) : timerLog[i][2] = "live"
    /\ PecolibReturned => pending = 0

\* a finished call of PecolibWithOptions as Choose makes it: the options
\* carry a prompt and, at most, a query
ChooseCalled ==
    IsWrap /\ pc = "done" /\ optLayout = "" /\ optMatcher = ""

\* C18: Choose never returns an empty list with a nil error: it returns an
\* error and no list when the choice list is empty, when the selection
\* returned an error and when the selection is empty; otherwise it returns
\* one Choosable per selected item, in selection order.
C18_ChooseNeverEmptyWithoutError ==
    ChooseCalled =>
        LET c == Choose(choices, result, error)
        IN /\ ~(c.chosen = <<>> /\ c.err = NoError)
           /\ Len(choices) = 0 => c.err = "there is no"
           /\ Len(choices) > 0 /\ (error # NoError \/ result = <<>>) =>
                 c.err = "no select"
           /\ c.err # NoError => c.chosen = <<>>
           /\ c.err = NoError =>
                 /\ c.chosen = result
                 /\ Len(c.chosen) = Len(out)
                 /\ Len(c.chosen) >= 1

\* two rows confirmed: Choose returns both choices, in order
C18_Witness ==
    /\ ChooseCalled /\ optQuery # ""
    /\ Len(out) = 2
    /\ Choose(choices, result, error) = [chosen |-> <<1, 2>>, err |-> NoError]

\* confirmed with zero lines: Choose returns the error
C18_WitnessEmptySelection ==
    /\ ChooseCalled /\ choices # <<>>
    /\ stRead /\ st = 0 /\ error = NoError /\ result = <<>>
    /\ Choose(choices, result, error).err = "no select"

====
